---- MODULE Spec2Model ----
(***************************************************************************)
(* Model of GLYXFITNESS (src/App.tsx): the metabolic calculator            *)
(* calculateStats and the wizard state of the App component.               *)
(*                                                                         *)
(* Numbers.  JavaScript numbers are IEEE-754 doubles.  The model keeps     *)
(* them as integers in fixed units:                                        *)
(*   - user.weight is held in TENTHS of a kilogram (a one-decimal entry    *)
(*     read by parseFloat), so 10 * user.weight is the integer `weight`;   *)
(*   - user.height (cm), user.age (years) and user.targetWeightLoss (kg)   *)
(*     are integers (parseInt / whole-number entries);                     *)
(*   - the local `bmr` of calculateStats is held in QUARTERS of a kcal     *)
(*     (6.25 * height has a fractional part of 0, 1/4, 1/2 or 3/4).       *)
(* Every sum and product below is exact in doubles on these inputs except  *)
(* tdee * (1 - 0.30), whose rounding is modelled in FloatProductBelowTie.  *)
(***************************************************************************)
EXTENDS Integers, Sequences, FiniteSets, TLC

(***************************************************************************)
(* Enumerations of src/types.ts                                            *)
(***************************************************************************)
Gender == {"MALE", "FEMALE"}

ActivityLevel ==
  {"SEDENTARY", "LIGHTLY_ACTIVE", "MODERATELY_ACTIVE", "VERY_ACTIVE", "EXTRA_ACTIVE"}

DeficitLevel == {"LIGHT", "MODERATE", "AGGRESSIVE"}

(***************************************************************************)
(* Bounds of the checked input space                                       *)
(***************************************************************************)
\* Degenerate entries -1..MaxTiny are tried for weight (tenths of kg),
\* height (cm) and age (years), next to realistic ones.
MaxTiny == 4

Weights == (-1 .. MaxTiny) \cup {600, 750, 900}

Heights == (-1 .. MaxTiny) \cup {160, 170, 175}

Ages == (-1 .. MaxTiny) \cup {25, 30}

TargetLosses == {0, 10}

(***************************************************************************)
(* Arithmetic of the JavaScript runtime                                    *)
(***************************************************************************)
\* A plausible slip: Math.ceil where Math.round is meant.
Round_AsCeil(n, d) == -((-n) \div d)

\* Math.round(n / d) for d > 0: the nearest integer, a tie going up
\* (towards +infinity), i.e. floor(n/d + 1/2).
Round(n, d) == (2 * n + d) \div (2 * d)

\* Math.ceil(n / d) for d # 0.
Ceil(n, d) ==
  IF d > 0 THEN -((-n) \div d) ELSE -(n \div (-d))

\* The largest power of two that is <= n, for n >= 1 (the binade of n).
RECURSIVE Pow2Floor(_)
Pow2Floor(n) == IF n < 2 THEN 1 ELSE 2 * Pow2Floor(n \div 2)

(***************************************************************************)
(* calculateStats (src/App.tsx:40-86)                                      *)
(***************************************************************************)
\* A plausible slip: the age term added instead of subtracted.
Bmr4_AgeAdded(user) ==
  4 * user.weight + 25 * user.height + 20 * user.age
    + (IF user.gender = "MALE" THEN 20 ELSE -644)

\* A plausible slip: the male constant applied to every gender.
Bmr4_MaleOnly(user) ==
  4 * user.weight + 25 * user.height - 20 * user.age + 20

\* The local `bmr` after lines 42-48, in quarters of a kcal:
\* 4 * ((10 * weightKg) + (6.25 * height) - (5 * age) + 5 or - 161).
Bmr4(user) ==
  4 * user.weight + 25 * user.height - 20 * user.age
    + (IF user.gender = "MALE" THEN 20 ELSE -644)

\* A plausible slip: VERY_ACTIVE given the multiplier of MODERATELY_ACTIVE.
ActivityMultiplier_Repeated(level) ==
  CASE level = "SEDENTARY" -> <<6, 5>>
    [] level = "LIGHTLY_ACTIVE" -> <<11, 8>>
    [] level = "MODERATELY_ACTIVE" -> <<31, 20>>
    [] level = "VERY_ACTIVE" -> <<31, 20>>
    [] level = "EXTRA_ACTIVE" -> <<19, 10>>
    [] OTHER -> <<6, 5>>

\* activityMultiplier after the switch of lines 50-57, as a fraction
\* <<numerator, denominator>>: 1.2, 1.375, 1.55, 1.725, 1.9; a level that
\* matches no case keeps the initial 1.2.
ActivityMultiplier(level) ==
  CASE level = "SEDENTARY" -> <<6, 5>>
    [] level = "LIGHTLY_ACTIVE" -> <<11, 8>>
    [] level = "MODERATELY_ACTIVE" -> <<31, 20>>
    [] level = "VERY_ACTIVE" -> <<69, 40>>
    [] level = "EXTRA_ACTIVE" -> <<19, 10>>
    [] OTHER -> <<6, 5>>

\* tdee = Math.round(bmr * activityMultiplier), line 59.  The double product
\* lands on the same side of every tie as the exact one for bmr in quarters
\* (the doubles nearest 1.2, 1.55, 1.725 and 1.9 are off by less than half
\* an ulp of the product; 1.375 is exact).
Tdee(user) ==
  LET m == ActivityMultiplier(user.activityLevel)
  IN  Round(Bmr4(user) * m[1], 4 * m[2])

\* (1 - deficitPercentage) after the switch of lines 62-74, in tenths: the
\* doubles 1 - 0.10, 1 - 0.20 and 1 - 0.30 are the doubles nearest 0.9, 0.8
\* and 0.7; a level that matches no case keeps the initial 0.20.
DeficitFactor(deficitLevel) ==
  CASE deficitLevel = "LIGHT" -> 9
    [] deficitLevel = "MODERATE" -> 8
    [] deficitLevel = "AGGRESSIVE" -> 7
    [] OTHER -> 8

\* Whether the double product tdee * (1 - deficitPercentage) falls below an
\* exact tie k + 1/2.  A tie needs tdee = 5 (mod 10) and a factor of 0.9 or
\* 0.7.  The double nearest 0.9 lies above 0.9, so that product is never
\* below the tie.  The double nearest 0.7 is 0.7 - 0.4 * 2^-53; the product
\* T - 0.4 * tdee * 2^-53 of a tie T in [2^e, 2^(e+1)) is rounded to the
\* double below T exactly when 0.4 * tdee * 2^-53 exceeds half an ulp,
\* 2^(e-53), i.e. when 2 * tdee > 5 * 2^e (e.g. 2585 * 0.7 evaluates to
\* 1809.4999999999998).  For tdee <= 0 the product is never below the tie.
FloatProductBelowTie(tdee, factor) ==
  /\ factor = 7
  /\ tdee > 0
  /\ tdee % 10 = 5
  /\ 2 * tdee > 5 * Pow2Floor((7 * tdee) \div 10)

\* A plausible slip: the target rounded up instead of to the nearest.
TargetCalories_Ceil(tdee, deficitLevel) ==
  Round_AsCeil(tdee * DeficitFactor(deficitLevel), 10)

\* targetCalories = Math.round(tdee * (1 - deficitPercentage)), line 76.
TargetCalories(tdee, deficitLevel) ==
  LET factor == DeficitFactor(deficitLevel)
  IN  IF FloatProductBelowTie(tdee, factor)
        THEN (tdee * factor) \div 10
        ELSE Round(tdee * factor, 10)

\* A plausible slip: a plan never shorter than one week.
WeeksToGoal_AtLeastOne(targetWeightLoss, weeklyDeficit) ==
  IF targetWeightLoss > 0
    THEN Ceil(targetWeightLoss * 7700,
              IF weeklyDeficit # 0 THEN weeklyDeficit ELSE 1)
    ELSE 1

\* weeksToGoal, lines 81-83: (weeklyDeficit || 1) replaces only a zero.
WeeksToGoal(targetWeightLoss, weeklyDeficit) ==
  IF targetWeightLoss > 0
    THEN Ceil(targetWeightLoss * 7700,
              IF weeklyDeficit # 0 THEN weeklyDeficit ELSE 1)
    ELSE 0

\* The deficitLevel argument of a call that passes none.
Undefined == "undefined"

\* A plausible slip: the lightest level as the default.
DefaultLevel_Light(deficitLevel) ==
  IF deficitLevel = Undefined THEN "LIGHT" ELSE deficitLevel

\* The default parameter of line 40: deficitLevel = DeficitLevel.MODERATE
\* when the argument is omitted.
DefaultLevel(deficitLevel) ==
  IF deficitLevel = Undefined THEN "MODERATE" ELSE deficitLevel

\* History (no state of the program): the calls of calculateStats that have
\* returned in a session of calls, each with its arguments and its result.
VARIABLE calls

\* A plausible slip: `bmr` declared at module level, so that a call starts
\* from the value the previous call left in it.
calculateStats_Accumulating(user, deficitLevel) ==
  LET carried == IF calls = <<>> THEN 0 ELSE 4 * calls[Len(calls)].stats.bmr
      tdee == Tdee(user)
      targetCalories == TargetCalories(tdee, DefaultLevel(deficitLevel))
      weeklyDeficit == (tdee - targetCalories) * 7
  IN  [bmr |-> Round(Bmr4(user) + carried, 4),
       tdee |-> tdee,
       targetCalories |-> targetCalories,
       weeksToGoal |-> WeeksToGoal(user.targetWeightLoss, weeklyDeficit)]

\* calculateStats, lines 40-86: every name it assigns is local to the call.
calculateStats(user, deficitLevel) ==
  LET tdee == Tdee(user)
      targetCalories == TargetCalories(tdee, DefaultLevel(deficitLevel))
      weeklyDeficit == (tdee - targetCalories) * 7
  IN  [bmr |-> Round(Bmr4(user), 4),
       tdee |-> tdee,
       targetCalories |-> targetCalories,
       weeksToGoal |-> WeeksToGoal(user.targetWeightLoss, weeklyDeficit)]

\* A profile with positive weight, height and age.
ValidProfile(user) == user.weight > 0 /\ user.height > 0 /\ user.age > 0

\* The value of a state variable that holds no object (null).
Null == [null |-> TRUE]

\* The fields of a user that calculateStats reads.
CalcInput(user) ==
  [age |-> user.age, weight |-> user.weight, height |-> user.height,
   gender |-> user.gender, activityLevel |-> user.activityLevel,
   targetWeightLoss |-> user.targetWeightLoss]

\* initialUser, lines 88-101 (the fields the model follows).
initialUser ==
  [name |-> "", age |-> 30, weight |-> 900, height |-> 175,
   gender |-> "MALE", activityLevel |-> "SEDENTARY", targetWeightLoss |-> 10]

(***************************************************************************)
(* State of the App component (src/App.tsx:1297-1310), of the profile      *)
(* editor, and of the hosted backend                                       *)
(***************************************************************************)
VARIABLES
  step,            \* useState(0): the wizard step
  user,            \* useState(initialUser)
  stats,           \* useState(null): CalculatedStats or Null
  dietPlan,        \* useState(null)
  workoutPlan,     \* useState(null)
  deficitLevel,    \* useState(DeficitLevel.MODERATE)
  loading,         \* useState(false)
  error,           \* useState('')
  showAnamnesis,   \* useState(false)
  showProfileEdit, \* useState(false)
  isEditing,       \* useState(false)
  authMode,        \* useState('register')
  formData,        \* ProfileEditModal's form while it is open, else Null
  pendingDiet,     \* the generateDietPlan request in flight, or Null
  pendingWorkout,  \* the generateWorkoutPlan request in flight, or Null
  session,         \* the backend holds a signed-in session for this client
  dbAccount,       \* the account of this e-mail exists in the backend
  dbProfile,       \* its row of table `profiles`, or Null
  dbDiet,          \* the data of its row of `plans` of type 'diet', or Null
  dbWorkout,       \* the data of its row of type 'workout', or Null
  calcArgs,        \* what the last calculateStats call of the App read, or Null
  regens           \* the regeneration requests made so far, in order

\* The AuthScreen (lines 995-1081): its own loading and error, the await
\* handleAuth stands at, and the backend calls it has made, in order.
VARIABLES authLoading, authError, authPc, authLog

authVars == <<authLoading, authError, authPc, authLog>>

VARIABLES argUser, argLevel, retStats

appVars ==
  <<step, user, stats, dietPlan, workoutPlan, deficitLevel, loading, error,
    showAnamnesis, showProfileEdit, isEditing, authMode, formData,
    pendingDiet, pendingWorkout, session, dbAccount, dbProfile, dbDiet,
    dbWorkout, calcArgs, regens, authVars>>

calcVars == <<argUser, argLevel, retStats, calls>>

vars == <<appVars, calcVars>>

\* What the user can type or select in the profile forms.  An empty or
\* non-numeric entry reads as 0 (parseInt(..) || 0, parseFloat(..) || 0);
\* a number input without `min` takes a negative entry as it is.
AppNames == {"", "Ana"}

AppAges == {30}

AppWeights == {-900, 0, 900}

AppHeights == {175}

AppLosses == {10}

AppGenders == {"MALE"}

AppActivityLevels == {"SEDENTARY"}

\* The values one onChange handler of a profile form can give to `u`:
\* setUser({...user, <field>: <entry>}), lines 580-645 and 504-537.
OneFieldEdits(u) ==
  {[u EXCEPT !.name = v] : v \in AppNames}
    \cup {[u EXCEPT !.age = v] : v \in AppAges}
    \cup {[u EXCEPT !.weight = v] : v \in AppWeights}
    \cup {[u EXCEPT !.height = v] : v \in AppHeights}
    \cup {[u EXCEPT !.targetWeightLoss = v] : v \in AppLosses}
    \cup {[u EXCEPT !.gender = v] : v \in AppGenders}
    \cup {[u EXCEPT !.activityLevel = v] : v \in AppActivityLevels}

\* The plans the generation service returns.  What is followed of a diet
\* plan is, for each meal, the request that produced it (0: the generation of
\* the plan); of a workout plan, for each day, that request and its duration.
NumMeals == 1

NumDays == 2

Meals == 1 .. NumMeals

Days == 1 .. NumDays

\* Two of the workoutDurations of lines 108-110.
Durations == {"Ate 45min", "Ate 1h"}

GeneratedDietPlan == [meals |-> [m \in Meals |-> 0]]

GeneratedWorkoutPlan ==
  [days |-> [d \in Days |-> [id |-> 0, duration |-> "Ate 1h"]]]

\* No modal dialog covers the page (both are full-screen overlays).
NoModal == ~showAnamnesis /\ ~showProfileEdit

\* The AuthScreen as mounted: useState(false), useState('').
AuthIdle ==
  /\ authLoading = FALSE
  /\ authError = ""
  /\ authPc = "idle"
  /\ authLog = <<>>

AppInit ==
  /\ step = 0
  /\ user = initialUser
  /\ stats = Null
  /\ dietPlan = Null
  /\ workoutPlan = Null
  /\ deficitLevel = "MODERATE"
  /\ loading = FALSE
  /\ error = ""
  /\ showAnamnesis = FALSE
  /\ showProfileEdit = FALSE
  /\ isEditing = FALSE
  /\ authMode = "register"
  /\ formData = Null
  /\ pendingDiet = Null
  /\ pendingWorkout = Null
  /\ session = FALSE
  /\ dbAccount = FALSE
  /\ dbProfile = Null
  /\ dbDiet = Null
  /\ dbWorkout = Null
  /\ calcArgs = Null
  /\ regens = <<>>
  /\ AuthIdle

CalcIdle ==
  /\ argUser = initialUser
  /\ argLevel = "MODERATE"
  /\ retStats = Null
  /\ calls = <<>>

Init == AppInit /\ CalcIdle

(***************************************************************************)
(* Onboarding and analysis (steps 0 and 2)                                 *)
(***************************************************************************)
\* One onChange of the onboarding form, lines 576-650.
OnboardingChange ==
  /\ step = 0
  /\ NoModal
  /\ \E u \in OneFieldEdits(user) : user' = u
  /\ UNCHANGED <<step, stats, dietPlan, workoutPlan, deficitLevel, loading,
                 error, showAnamnesis, showProfileEdit, isEditing, authMode,
                 formData, pendingDiet, pendingWorkout, session, dbAccount,
                 dbProfile, dbDiet, dbWorkout, calcArgs>>
  /\ UNCHANGED <<calcVars, authVars>>
  /\ UNCHANGED regens

\* "Gerar Analise" (disabled while the name is empty), lines 1334-1340:
\* an alert and nothing else when a field is falsy, else the modal opens.
\* !x is true of 0 (and of NaN, read as 0 here), not of a negative number.
handleOnboardingNext ==
  /\ step = 0
  /\ NoModal
  /\ user.name # ""
  /\ showAnamnesis' =
       ~(user.name = "" \/ user.weight = 0 \/ user.height = 0 \/ user.age = 0)
  /\ UNCHANGED <<step, user, stats, dietPlan, workoutPlan, deficitLevel,
                 loading, error, showProfileEdit, isEditing, authMode,
                 formData, pendingDiet, pendingWorkout, session, dbAccount,
                 dbProfile, dbDiet, dbWorkout, calcArgs>>
  /\ UNCHANGED <<calcVars, authVars>>
  /\ UNCHANGED regens

\* "Confirmar e Prosseguir" of the anamnesis modal, lines 1342-1347.
handleAnamnesisConfirm ==
  /\ showAnamnesis
  /\ showAnamnesis' = FALSE
  /\ stats' = calculateStats(user, deficitLevel)
  /\ calcArgs' = [user |-> CalcInput(user), level |-> deficitLevel]
  /\ step' = 2
  /\ UNCHANGED <<user, dietPlan, workoutPlan, deficitLevel, loading, error,
                 showProfileEdit, isEditing, authMode, formData, pendingDiet,
                 pendingWorkout, session, dbAccount, dbProfile, dbDiet,
                 dbWorkout>>
  /\ UNCHANGED <<calcVars, authVars>>
  /\ UNCHANGED regens

\* One of the three deficit buttons of the analysis screen, lines 1349-1353.
handleDeficitChange(level) ==
  /\ step = 2
  /\ NoModal
  /\ deficitLevel' = level
  /\ stats' = calculateStats(user, level)
  /\ calcArgs' = [user |-> CalcInput(user), level |-> level]
  /\ UNCHANGED <<step, user, dietPlan, workoutPlan, loading, error,
                 showAnamnesis, showProfileEdit, isEditing, authMode, formData,
                 pendingDiet, pendingWorkout, session, dbAccount, dbProfile,
                 dbDiet, dbWorkout>>
  /\ UNCHANGED <<calcVars, authVars>>
  /\ UNCHANGED regens

(***************************************************************************)
(* Navigation (lines 1312-1332) and saving of the plans (lines 1438-1454)  *)
(***************************************************************************)
\* savePlansToSupabase(currentDiet, currentWorkout): with a session, each
\* existing row of `plans` is updated from the plan given, if there is one.
SavedDiet(currentDiet) ==
  IF session /\ dbDiet # Null /\ currentDiet # Null THEN currentDiet ELSE dbDiet

SavedWorkout(currentWorkout) ==
  IF session /\ dbWorkout # Null /\ currentWorkout # Null
    THEN currentWorkout
    ELSE dbWorkout

\* A plausible slip: the edit branch without setIsEditing(false).
nextStep_KeepsEditing(editing, diet, workout) ==
  IF editing
    THEN /\ step' = 8
         /\ dbDiet' = SavedDiet(diet)
         /\ dbWorkout' = SavedWorkout(workout)
         /\ UNCHANGED isEditing
    ELSE /\ step' = step + 1
         /\ UNCHANGED <<isEditing, dbDiet, dbWorkout>>

\* nextStep as run by a handler that saw `editing` for isEditing and the
\* plans `diet` and `workout` (the defaults of savePlansToSupabase).
nextStep(editing, diet, workout) ==
  IF editing
    THEN /\ step' = 8
         /\ isEditing' = FALSE
         /\ dbDiet' = SavedDiet(diet)
         /\ dbWorkout' = SavedWorkout(workout)
    ELSE /\ step' = step + 1
         /\ UNCHANGED <<isEditing, dbDiet, dbWorkout>>

\* The forward button of the analysis (2), diet (4) and workout (6) screens;
\* the last one first sets authMode to 'register' (line 1609).
ClickNext ==
  /\ step \in {2, 4, 6}
  /\ NoModal
  /\ authMode' = IF step = 6 THEN "register" ELSE authMode
  /\ nextStep(isEditing, dietPlan, workoutPlan)
  /\ UNCHANGED <<user, stats, dietPlan, workoutPlan, deficitLevel, loading,
                 error, showAnamnesis, showProfileEdit, formData, pendingDiet,
                 pendingWorkout, session, dbAccount, dbProfile, calcArgs>>
  /\ UNCHANGED <<calcVars, authVars>>
  /\ UNCHANGED regens

\* prevStep, the "Voltar" button of the screens of steps 2 to 6.
prevStep ==
  /\ step \in 2 .. 6
  /\ NoModal
  /\ IF isEditing
       THEN step' = 8 /\ isEditing' = FALSE
       ELSE step' = step - 1 /\ UNCHANGED isEditing
  /\ UNCHANGED <<user, stats, dietPlan, workoutPlan, deficitLevel, loading,
                 error, showAnamnesis, showProfileEdit, authMode, formData,
                 pendingDiet, pendingWorkout, session, dbAccount, dbProfile,
                 dbDiet, dbWorkout, calcArgs>>
  /\ UNCHANGED <<calcVars, authVars>>
  /\ UNCHANGED regens

\* "Ja tem conta? Entrar" of the header, shown unless step is 7 or 8.
handleHeaderLogin ==
  /\ step \notin {7, 8}
  /\ NoModal
  /\ authMode' = "login"
  /\ step' = 7
  /\ UNCHANGED <<user, stats, dietPlan, workoutPlan, deficitLevel, loading,
                 error, showAnamnesis, showProfileEdit, isEditing, formData,
                 pendingDiet, pendingWorkout, session, dbAccount, dbProfile,
                 dbDiet, dbWorkout, calcArgs>>
  /\ UNCHANGED <<calcVars, authVars>>
  /\ UNCHANGED regens

(***************************************************************************)
(* Plan generation (lines 1355-1382): a request to the service, then its   *)
(* resolution or rejection.  The handler keeps the isEditing and the plans *)
(* of the render it was started from.                                      *)
(***************************************************************************)
\* "Gerar" of the food screen (disabled while loading).  Without stats the
\* handler throws before any request and ends in its catch and finally.
handleGenerateDiet ==
  /\ step = 3
  /\ NoModal
  /\ ~loading
  /\ IF stats = Null
       THEN /\ error' = "Falha ao gerar dieta. Tente novamente."
            /\ UNCHANGED <<loading, pendingDiet>>
       ELSE /\ error' = ""
            /\ loading' = TRUE
            /\ pendingDiet' = [isEditing |-> isEditing, dietPlan |-> dietPlan,
                               workoutPlan |-> workoutPlan]
  /\ UNCHANGED <<step, user, stats, dietPlan, workoutPlan, deficitLevel,
                 showAnamnesis, showProfileEdit, isEditing, authMode, formData,
                 pendingWorkout, session, dbAccount, dbProfile, dbDiet,
                 dbWorkout, calcArgs>>
  /\ UNCHANGED <<calcVars, authVars>>
  /\ UNCHANGED regens

\* generateDietPlan resolves: setDietPlan(plan); nextStep(); finally.
DietGenerated ==
  /\ pendingDiet # Null
  /\ dietPlan' = GeneratedDietPlan
  /\ nextStep(pendingDiet.isEditing, pendingDiet.dietPlan,
              pendingDiet.workoutPlan)
  /\ loading' = FALSE
  /\ pendingDiet' = Null
  /\ UNCHANGED <<user, stats, workoutPlan, deficitLevel, error, showAnamnesis,
                 showProfileEdit, authMode, formData, pendingWorkout, session,
                 dbAccount, dbProfile, calcArgs>>
  /\ UNCHANGED <<calcVars, authVars>>
  /\ UNCHANGED regens

\* A plausible slip: the catch without the finally.
DietFailed_KeepsLoading ==
  /\ pendingDiet # Null
  /\ error' = "Falha ao gerar dieta. Tente novamente."
  /\ pendingDiet' = Null
  /\ UNCHANGED <<step, user, stats, dietPlan, workoutPlan, deficitLevel,
                 loading, showAnamnesis, showProfileEdit, isEditing, authMode,
                 formData, pendingWorkout, session, dbAccount, dbProfile,
                 dbDiet, dbWorkout, calcArgs>>
  /\ UNCHANGED <<calcVars, authVars>>
  /\ UNCHANGED regens

\* generateDietPlan rejects: catch and finally.
DietFailed ==
  /\ pendingDiet # Null
  /\ error' = "Falha ao gerar dieta. Tente novamente."
  /\ loading' = FALSE
  /\ pendingDiet' = Null
  /\ UNCHANGED <<step, user, stats, dietPlan, workoutPlan, deficitLevel,
                 showAnamnesis, showProfileEdit, isEditing, authMode, formData,
                 pendingWorkout, session, dbAccount, dbProfile, dbDiet,
                 dbWorkout, calcArgs>>
  /\ UNCHANGED <<calcVars, authVars>>
  /\ UNCHANGED regens

\* "Gerar" of the workout setup screen (disabled while loading).
handleGenerateWorkout ==
  /\ step = 5
  /\ NoModal
  /\ ~loading
  /\ error' = ""
  /\ loading' = TRUE
  /\ pendingWorkout' = [isEditing |-> isEditing, dietPlan |-> dietPlan,
                        workoutPlan |-> workoutPlan]
  /\ UNCHANGED <<step, user, stats, dietPlan, workoutPlan, deficitLevel,
                 showAnamnesis, showProfileEdit, isEditing, authMode, formData,
                 pendingDiet, session, dbAccount, dbProfile, dbDiet, dbWorkout,
                 calcArgs>>
  /\ UNCHANGED <<calcVars, authVars>>
  /\ UNCHANGED regens

WorkoutGenerated ==
  /\ pendingWorkout # Null
  /\ workoutPlan' = GeneratedWorkoutPlan
  /\ nextStep(pendingWorkout.isEditing, pendingWorkout.dietPlan,
              pendingWorkout.workoutPlan)
  /\ loading' = FALSE
  /\ pendingWorkout' = Null
  /\ UNCHANGED <<user, stats, dietPlan, deficitLevel, error, showAnamnesis,
                 showProfileEdit, authMode, formData, pendingDiet, session,
                 dbAccount, dbProfile, calcArgs>>
  /\ UNCHANGED <<calcVars, authVars>>
  /\ UNCHANGED regens

WorkoutFailed ==
  /\ pendingWorkout # Null
  /\ error' = "Falha ao gerar treino. Tente novamente."
  /\ loading' = FALSE
  /\ pendingWorkout' = Null
  /\ UNCHANGED <<step, user, stats, dietPlan, workoutPlan, deficitLevel,
                 showAnamnesis, showProfileEdit, isEditing, authMode, formData,
                 pendingDiet, session, dbAccount, dbProfile, dbDiet, dbWorkout,
                 calcArgs>>
  /\ UNCHANGED <<calcVars, authVars>>
  /\ UNCHANGED regens

(***************************************************************************)
(* Authentication (AuthScreen.handleAuth, lines 1000-1081) and             *)
(* handleAuthComplete (lines 1480-1516)                                    *)
(***************************************************************************)
\* The row of `profiles` written from a user, lines 1032-1046 and 1459-1467.
ProfileRow(u) ==
  [name |-> u.name, age |-> u.age, weight |-> u.weight, height |-> u.height,
   gender |-> u.gender, activity_level |-> u.activityLevel,
   target_weight_loss |-> u.targetWeightLoss]

\* The user handleAuthComplete passes to calculateStats, line 1504:
\* { ...initialUser, ...profile, gender, activityLevel }.  The row's
\* target_weight_loss stays a snake_case key, so targetWeightLoss is the
\* one of initialUser.
StatsUserOfProfile(profile) ==
  [name |-> profile.name, age |-> profile.age, weight |-> profile.weight,
   height |-> profile.height, gender |-> profile.gender,
   activityLevel |-> profile.activity_level,
   targetWeightLoss |-> initialUser.targetWeightLoss]

\* setUser(prev => ({...prev, <the fields of the row>})), lines 1490-1503.
UserOfProfile(profile) ==
  [name |-> profile.name, age |-> profile.age, weight |-> profile.weight,
   height |-> profile.height, gender |-> profile.gender,
   activityLevel |-> profile.activity_level,
   targetWeightLoss |-> profile.target_weight_loss]

\* handleAuthComplete for a signed-in client whose rows are `profile`,
\* `diet` and `workout` (each possibly Null).
handleAuthComplete(profile, diet, workout) ==
  /\ IF profile # Null
       THEN /\ user' = UserOfProfile(profile)
            /\ stats' = calculateStats(StatsUserOfProfile(profile), "MODERATE")
            /\ calcArgs' = [user |-> CalcInput(StatsUserOfProfile(profile)),
                            level |-> "MODERATE"]
       ELSE UNCHANGED <<user, stats, calcArgs>>
  /\ dietPlan' = IF diet # Null THEN diet ELSE dietPlan
  /\ workoutPlan' = IF workout # Null THEN workout ELSE workoutPlan
  /\ step' = 8

\* "Entrar": signInWithPassword fails (wrong password, no such account) and
\* only the screen's own error is set, or succeeds and onComplete runs.
handleAuthLogin ==
  /\ step = 7
  /\ authMode = "login"
  /\ \E signedIn \in BOOLEAN :
       /\ signedIn => dbAccount
       /\ IF signedIn
            THEN /\ session' = TRUE
                 /\ handleAuthComplete(dbProfile, dbDiet, dbWorkout)
            ELSE UNCHANGED <<step, user, stats, dietPlan, workoutPlan,
                             session, calcArgs>>
  /\ UNCHANGED <<deficitLevel, loading, error, showAnamnesis, showProfileEdit,
                 isEditing, authMode, formData, pendingDiet, pendingWorkout,
                 dbAccount, dbProfile, dbDiet, dbWorkout>>
  /\ UNCHANGED <<calcVars, authVars>>
  /\ UNCHANGED regens

\* "Criar Conta e Salvar": signUp (refused for an e-mail already registered,
\* or failing otherwise), the insert of the profile (its failure aborts),
\* the inserts of the plans (their failures are only logged), onComplete.
handleAuthRegister ==
  /\ step = 7
  /\ authMode = "register"
  /\ \E signedUp, profileSaved, dietSaved, workoutSaved \in BOOLEAN :
       /\ signedUp => ~dbAccount
       /\ ~signedUp => ~profileSaved
       /\ ~profileSaved => (~dietSaved /\ ~workoutSaved)
       /\ dietSaved => dietPlan # Null
       /\ workoutSaved => workoutPlan # Null
       /\ dbAccount' = (dbAccount \/ signedUp)
       /\ session' = (session \/ signedUp)
       /\ dbProfile' = IF profileSaved THEN ProfileRow(user) ELSE dbProfile
       /\ dbDiet' = IF dietSaved THEN dietPlan ELSE dbDiet
       /\ dbWorkout' = IF workoutSaved THEN workoutPlan ELSE dbWorkout
       /\ IF profileSaved
            THEN handleAuthComplete(dbProfile', dbDiet', dbWorkout')
            ELSE UNCHANGED <<step, user, stats, dietPlan, workoutPlan,
                             calcArgs>>
  /\ UNCHANGED <<deficitLevel, loading, error, showAnamnesis, showProfileEdit,
                 isEditing, authMode, formData, pendingDiet, pendingWorkout>>
  /\ UNCHANGED <<calcVars, authVars>>
  /\ UNCHANGED regens

\* "Nao tem uma conta? Iniciar teste", shown in login mode (line 1622).
AuthBack ==
  /\ step = 7
  /\ authMode = "login"
  /\ step' = 0
  /\ UNCHANGED <<user, stats, dietPlan, workoutPlan, deficitLevel, loading,
                 error, showAnamnesis, showProfileEdit, isEditing, authMode,
                 formData, pendingDiet, pendingWorkout, session, dbAccount,
                 dbProfile, dbDiet, dbWorkout, calcArgs>>
  /\ UNCHANGED <<calcVars, authVars>>
  /\ UNCHANGED regens

(***************************************************************************)
(* Dashboard (step 8, lines 1626-1641) and the profile editor              *)
(***************************************************************************)
\* onLogout: supabase.auth.signOut(); setStep(0); setUser(initialUser).
onLogout ==
  /\ step = 8
  /\ NoModal
  /\ session' = FALSE
  /\ step' = 0
  /\ user' = initialUser
  /\ UNCHANGED <<stats, dietPlan, workoutPlan, deficitLevel, loading, error,
                 showAnamnesis, showProfileEdit, isEditing, authMode, formData,
                 pendingDiet, pendingWorkout, dbAccount, dbProfile, dbDiet,
                 dbWorkout, calcArgs>>
  /\ UNCHANGED <<calcVars, authVars>>
  /\ UNCHANGED regens

\* "Refazer Teste", lines 1523-1528.
handleRestart ==
  /\ step = 8
  /\ NoModal
  /\ step' = 0
  /\ dietPlan' = Null
  /\ workoutPlan' = Null
  /\ user' = initialUser
  /\ UNCHANGED <<stats, deficitLevel, loading, error, showAnamnesis,
                 showProfileEdit, isEditing, authMode, formData, pendingDiet,
                 pendingWorkout, session, dbAccount, dbProfile, dbDiet,
                 dbWorkout, calcArgs>>
  /\ UNCHANGED <<calcVars, authVars>>
  /\ UNCHANGED regens

\* onEditDiet (to step 4) and onEditWorkout (to step 6), lines 1633-1634.
onEditPlan(target) ==
  /\ step = 8
  /\ NoModal
  /\ isEditing' = TRUE
  /\ step' = target
  /\ UNCHANGED <<user, stats, dietPlan, workoutPlan, deficitLevel, loading,
                 error, showAnamnesis, showProfileEdit, authMode, formData,
                 pendingDiet, pendingWorkout, session, dbAccount, dbProfile,
                 dbDiet, dbWorkout, calcArgs>>
  /\ UNCHANGED <<calcVars, authVars>>
  /\ UNCHANGED regens

\* onEditProfile; the modal's effect copies user into its form (line 473).
onEditProfile ==
  /\ step = 8
  /\ NoModal
  /\ showProfileEdit' = TRUE
  /\ formData' = user
  /\ UNCHANGED <<step, user, stats, dietPlan, workoutPlan, deficitLevel,
                 loading, error, showAnamnesis, isEditing, authMode,
                 pendingDiet, pendingWorkout, session, dbAccount, dbProfile,
                 dbDiet, dbWorkout, calcArgs>>
  /\ UNCHANGED <<calcVars, authVars>>
  /\ UNCHANGED regens

\* One onChange of the profile editor, lines 504-537.
ProfileFormChange ==
  /\ showProfileEdit
  /\ \E u \in OneFieldEdits(formData) : formData' = u
  /\ UNCHANGED <<step, user, stats, dietPlan, workoutPlan, deficitLevel,
                 loading, error, showAnamnesis, showProfileEdit, isEditing,
                 authMode, pendingDiet, pendingWorkout, session, dbAccount,
                 dbProfile, dbDiet, dbWorkout, calcArgs>>
  /\ UNCHANGED <<calcVars, authVars>>
  /\ UNCHANGED regens

\* The X of the profile editor (onClose).
ProfileEditClose ==
  /\ showProfileEdit
  /\ showProfileEdit' = FALSE
  /\ formData' = Null
  /\ UNCHANGED <<step, user, stats, dietPlan, workoutPlan, deficitLevel,
                 loading, error, showAnamnesis, isEditing, authMode,
                 pendingDiet, pendingWorkout, session, dbAccount, dbProfile,
                 dbDiet, dbWorkout, calcArgs>>
  /\ UNCHANGED <<calcVars, authVars>>
  /\ UNCHANGED regens

\* The row of `profiles` after the update of lines 1459-1467 (the fields it
\* names; a missing row stays missing).
UpdatedProfileRow(row, updatedUser) ==
  IF row = Null THEN Null ELSE ProfileRow(updatedUser)

\* "Salvar Alteracoes": ProfileEditModal.handleSave (lines 476-486) around
\* handleProfileUpdate (lines 1456-1477).  A failed update throws: an alert,
\* the modal stays.  Without a signed-in user nothing is written or set.
handleProfileUpdate ==
  /\ showProfileEdit
  /\ \E updated \in BOOLEAN :
       /\ updated => session
       /\ IF updated
            THEN /\ dbProfile' = UpdatedProfileRow(dbProfile, formData)
                 /\ user' = formData
                 /\ stats' = calculateStats(formData, deficitLevel)
                 /\ calcArgs' = [user |-> CalcInput(formData), level |-> deficitLevel]
                 /\ showProfileEdit' = FALSE
                 /\ formData' = Null
            ELSE /\ showProfileEdit' = session
                 /\ formData' = IF session THEN formData ELSE Null
                 /\ UNCHANGED <<dbProfile, user, stats, calcArgs>>
  /\ UNCHANGED <<step, dietPlan, workoutPlan, deficitLevel, loading, error,
                 showAnamnesis, isEditing, authMode, pendingDiet,
                 pendingWorkout, session, dbAccount, dbDiet, dbWorkout>>
  /\ UNCHANGED <<calcVars, authVars>>
  /\ UNCHANGED regens

(***************************************************************************)
(* The application                                                         *)
(***************************************************************************)
Next ==
  \/ OnboardingChange
  \/ handleOnboardingNext
  \/ handleAnamnesisConfirm
  \/ \E level \in DeficitLevel : handleDeficitChange(level)
  \/ ClickNext
  \/ prevStep
  \/ handleHeaderLogin
  \/ handleGenerateDiet
  \/ DietGenerated
  \/ DietFailed
  \/ handleGenerateWorkout
  \/ WorkoutGenerated
  \/ WorkoutFailed
  \/ handleAuthLogin
  \/ handleAuthRegister
  \/ AuthBack
  \/ onLogout
  \/ handleRestart
  \/ \E target \in {4, 6} : onEditPlan(target)
  \/ onEditProfile
  \/ ProfileFormChange
  \/ ProfileEditClose
  \/ handleProfileUpdate


Spec == Init /\ [][Next]_vars

(***************************************************************************)
(* The calculator on its own: one call on an arbitrary profile             *)
(***************************************************************************)
Profiles ==
  [name : {"Ana"}, age : Ages, weight : Weights, height : Heights,
   gender : Gender, activityLevel : ActivityLevel,
   targetWeightLoss : TargetLosses]

InitCalc ==
  /\ AppInit
  /\ argUser \in Profiles
  /\ argLevel \in DeficitLevel
  /\ retStats = Null
  /\ calls = <<>>

\* calculateStats(argUser, argLevel) is called and returns.
Calculate ==
  /\ retStats = Null
  /\ retStats' = calculateStats(argUser, argLevel)
  /\ calls' = Append(calls, [user |-> argUser, level |-> argLevel,
                             stats |-> retStats'])
  /\ UNCHANGED <<argUser, argLevel>>
  /\ UNCHANGED appVars

NextCalc == Calculate

SpecCalc == InitCalc /\ [][NextCalc]_vars

(***************************************************************************)
(* Properties of the calculator, checked under SpecCalc                    *)
(***************************************************************************)
\* Position of an activity tier in the order of the enum (src/types.ts).
TierRank(level) ==
  CASE level = "SEDENTARY" -> 1
    [] level = "LIGHTLY_ACTIVE" -> 2
    [] level = "MODERATELY_ACTIVE" -> 3
    [] level = "VERY_ACTIVE" -> 4
    [] level = "EXTRA_ACTIVE" -> 5

\* n is the integer nearest to num / den (den > 0), a tie going up.
IsNearest(n, num, den) ==
  /\ 2 * den * n - den <= 2 * num
  /\ 2 * num < 2 * den * n + den

\* The deficit of a level in percent, as a reader of the specification has it.
DeficitPercent(level) ==
  CASE level = "LIGHT" -> 10
    [] level = "MODERATE" -> 20
    [] level = "AGGRESSIVE" -> 30

\* The multiplier of a tier in thousandths, as the specification tabulates it.
MultiplierThousandths(level) ==
  CASE level = "SEDENTARY" -> 1200
    [] level = "LIGHTLY_ACTIVE" -> 1375
    [] level = "MODERATELY_ACTIVE" -> 1550
    [] level = "VERY_ACTIVE" -> 1725
    [] level = "EXTRA_ACTIVE" -> 1900

\* C1: for every profile and deficit level the returned targetCalories is
\* round(tdee * (1 - f)), f = 0.10 / 0.20 / 0.30 for light / moderate /
\* aggressive, tdee being the tdee of the same result.  Stated for the
\* profiles the forms are meant to admit (positive weight, height and age).
C1_TargetIsRoundedShare ==
  (retStats # Null /\ ValidProfile(argUser)) =>
    IsNearest(retStats.targetCalories,
              retStats.tdee * (100 - DeficitPercent(argLevel)), 100)

\* C2: the returned bmr is round(10*weight + 6.25*height - 5*age + 5) for a
\* male profile and round(10*weight + 6.25*height - 5*age - 161) otherwise
\* (the sum is taken in quarters; weight is in tenths of a kilogram).
C2_BmrIsRoundedMifflin ==
  retStats # Null =>
    LET base4 == 4 * argUser.weight + 25 * argUser.height - 20 * argUser.age
    IN  IF argUser.gender = "MALE"
          THEN IsNearest(retStats.bmr, base4 + 4 * 5, 4)
          ELSE IsNearest(retStats.bmr, base4 - 4 * 161, 4)

\* C2 witness: a non-male profile whose unrounded bmr ends in .5 was
\* computed, so both the gender branch and the rounding of a tie are met.
C2_Witness ==
  /\ retStats # Null
  /\ argUser.gender # "MALE"
  /\ Bmr4(argUser) % 4 = 2
  /\ Bmr4(argUser) > 0

\* C3: the returned tdee is round(bmr * m) with bmr the unrounded
\* Mifflin-St Jeor value and m the multiplier of the profile's tier.
C3_TdeeIsRoundedProduct ==
  retStats # Null =>
    IsNearest(retStats.tdee,
              Bmr4(argUser) * MultiplierThousandths(argUser.activityLevel),
              4000)

\* C3 witness: a result whose tdee differs from the one the rounded bmr
\* would give, so the unrounded value is what decides.
C3_Witness ==
  /\ retStats # Null
  /\ Bmr4(argUser) > 0
  /\ ~IsNearest(retStats.tdee,
                retStats.bmr * MultiplierThousandths(argUser.activityLevel),
                1000)

Max(a, b) == IF a >= b THEN a ELSE b

\* C4: for targetWeightLoss > 0, weeksToGoal is
\* ceil(targetWeightLoss * 7700 / max(weeklyDeficit, 1)) with
\* weeklyDeficit = (tdee - targetCalories) * 7, hence a non-negative integer.
\* Stated for the profiles with positive weight, height and age.
C4_WeeksUseMaxGuard ==
  (retStats # Null /\ ValidProfile(argUser) /\ argUser.targetWeightLoss > 0) =>
    LET weeklyDeficit == (retStats.tdee - retStats.targetCalories) * 7
    IN  /\ retStats.weeksToGoal
             = Ceil(argUser.targetWeightLoss * 7700, Max(weeklyDeficit, 1))
        /\ retStats.weeksToGoal >= 0

StrictFrom(level) ==
  CASE level = "LIGHT" -> 6
    [] level = "MODERATE" -> 3
    [] level = "AGGRESSIVE" -> 2

C6_NoLossNoWeeks ==
  (retStats # Null /\ argUser.targetWeightLoss = 0) =>
    retStats.weeksToGoal = 0

\* C6 witness: a result for targetWeightLoss = 0 whose daily deficit is
\* positive, so that only the goal makes the weeks vanish.
C6_Witness ==
  /\ retStats # Null
  /\ argUser.targetWeightLoss = 0
  /\ retStats.tdee - retStats.targetCalories > 0
  /\ retStats.weeksToGoal = 0

\* The tdee of the profile of this call moved to another activity tier.
TdeeAtTier(level) ==
  calculateStats([argUser EXCEPT !.activityLevel = level], argLevel).tdee

\* C9 as claimed: with weight, height, age and gender fixed, tdee is strictly
\* increasing along the activity tiers, for every profile (stated for the
\* profiles with positive weight, height and age).
C9_TdeeStrictlyIncreasing ==
  (retStats # Null /\ ValidProfile(argUser)) =>
    \A level \in ActivityLevel :
      TierRank(level) > TierRank(argUser.activityLevel)
        => TdeeAtTier(level) > retStats.tdee

\* C9 amended: with weight, height, age and gender fixed so that the
\* unrounded bmr is at least 5.75 kcal (23 quarters), tdee is strictly
\* increasing along the activity tiers.
C9_TdeeStrictlyIncreasingFromBmr ==
  (retStats # Null /\ Bmr4(argUser) >= 23) =>
    \A level \in ActivityLevel :
      TierRank(level) > TierRank(argUser.activityLevel)
        => TdeeAtTier(level) > retStats.tdee

\* C9 witness: the least such bmr, computed at the lowest tier.
C9_Witness ==
  /\ retStats # Null
  /\ Bmr4(argUser) = 23
  /\ argUser.activityLevel = "SEDENTARY"
  /\ TdeeAtTier("EXTRA_ACTIVE") > retStats.tdee

\* C10: with the other inputs fixed, the returned bmr does not decrease when
\* weight or height increases and does not increase when age increases.
C10_BmrMonotone ==
  retStats # Null =>
    /\ \A w \in Weights :
         w >= argUser.weight
           => calculateStats([argUser EXCEPT !.weight = w], argLevel).bmr
                >= retStats.bmr
    /\ \A h \in Heights :
         h >= argUser.height
           => calculateStats([argUser EXCEPT !.height = h], argLevel).bmr
                >= retStats.bmr
    /\ \A a \in Ages :
         a >= argUser.age
           => calculateStats([argUser EXCEPT !.age = a], argLevel).bmr
                <= retStats.bmr

\* C10 witness: a computed profile that has a heavier, a taller and an older
\* neighbour in the checked input space.
C10_Witness ==
  /\ retStats # Null
  /\ \E w \in Weights : w > argUser.weight
  /\ \E h \in Heights : h > argUser.height
  /\ \E a \in Ages :
       /\ a > argUser.age
       /\ calculateStats([argUser EXCEPT !.age = a], argLevel).bmr
            < retStats.bmr

(***************************************************************************)
(* Properties of the application, checked under Spec                       *)
(***************************************************************************)
\* C7: stats are never computed from a profile with weight <= 0,
\* height <= 0 or age <= 0: whatever calculateStats was last called with in
\* the application had positive weight, height and age.
C7_StatsOnlyFromValidProfiles ==
  calcArgs # Null => ValidProfile(calcArgs.user)

\* The steps whose screen displays the stats (analysis, diet plan,
\* dashboard).
StatsDisplayed == step \in {2, 4, 8}

\* C8: in every state in which stats are displayed, stats equals
\* calculateStats(user, deficitLevel) for the current user and level.
C8_StatsFollowUserAndLevel ==
  StatsDisplayed => stats = calculateStats(user, deficitLevel)

(***************************************************************************)
(* The calculator on the worked scenarios, checked under SpecCalc          *)
(***************************************************************************)
\* The two profiles of the worked scenarios (weight in tenths of a kg).
IsScenarioMale(u) ==
  /\ u.gender = "MALE"
  /\ u.age = 30
  /\ u.weight = 900
  /\ u.height = 175
  /\ u.activityLevel = "SEDENTARY"

IsScenarioFemale(u) ==
  /\ u.gender = "FEMALE"
  /\ u.age = 25
  /\ u.weight = 600
  /\ u.height = 160
  /\ u.activityLevel = "VERY_ACTIVE"

\* C11: male/30/90 kg/175 cm/sedentary gives bmr 1849, tdee 2219 and
\* targetCalories 1775 (moderate), 1997 (light), 1553 (aggressive), with
\* weeksToGoal 17 for a 10 kg loss at the aggressive level;
\* female/25/60 kg/160 cm/very active/moderate gives bmr 1314, tdee 2267 and
\* targetCalories 1814.
C11_WorkedScenarios ==
  retStats # Null =>
    /\ IsScenarioMale(argUser) =>
         /\ retStats.bmr = 1849
         /\ retStats.tdee = 2219
         /\ argLevel = "MODERATE" => retStats.targetCalories = 1775
         /\ argLevel = "LIGHT" => retStats.targetCalories = 1997
         /\ argLevel = "AGGRESSIVE" => retStats.targetCalories = 1553
         /\ (argLevel = "AGGRESSIVE" /\ argUser.targetWeightLoss = 10)
              => retStats.weeksToGoal = 17
    /\ (IsScenarioFemale(argUser) /\ argLevel = "MODERATE") =>
         /\ retStats.bmr = 1314
         /\ retStats.tdee = 2267
         /\ retStats.targetCalories = 1814

\* C11 witness: the aggressive scenario with its 10 kg goal was computed.
C11_Witness ==
  /\ retStats # Null
  /\ IsScenarioMale(argUser)
  /\ argLevel = "AGGRESSIVE"
  /\ argUser.targetWeightLoss = 10
  /\ retStats.weeksToGoal = 17

\* C12: in every result the returned tdee equals round(m * returned bmr),
\* the bmr being the integer reported in the same result.  Stated for the
\* profiles with positive weight, height and age.
C12_TdeeFromReportedBmr ==
  (retStats # Null /\ ValidProfile(argUser)) =>
    IsNearest(retStats.tdee,
              retStats.bmr * MultiplierThousandths(argUser.activityLevel),
              1000)

(***************************************************************************)
(* Properties of the application, checked under Spec (continued)           *)
(***************************************************************************)
\* C13: the default deficit intensity is moderate.  calculateStats called
\* without a deficit level returns what it returns for MODERATE (for the
\* profile the application holds); deficitLevel is MODERATE in the initial
\* state and changes only when the user selects a level on the analysis
\* screen.
C13_DefaultIsModerate ==
  /\ deficitLevel = "MODERATE"
  /\ [](calculateStats(user, Undefined) = calculateStats(user, "MODERATE"))
  /\ [][deficitLevel' # deficitLevel
          => \E level \in DeficitLevel : handleDeficitChange(level)]_vars

\* C13 witness: the analysis was computed while the level was never chosen,
\* and it is the result of a call without a level.
C13_Witness ==
  /\ step = 2
  /\ deficitLevel = "MODERATE"
  /\ stats # Null
  /\ calcArgs # Null
  /\ calcArgs.level = "MODERATE"
  /\ stats = calculateStats(user, Undefined)
  /\ stats # calculateStats(user, "LIGHT")

(***************************************************************************)
(* A session of calls of the calculator                                    *)
(***************************************************************************)
\* The number of calls of a session.
MaxCalls == 3

CallProfiles ==
  [name : {"Ana"}, age : {30}, weight : {600, 900}, height : {175},
   gender : Gender, activityLevel : {"SEDENTARY"}, targetWeightLoss : {10}]

InitCalls ==
  /\ AppInit
  /\ argUser \in CallProfiles
  /\ argLevel \in DeficitLevel
  /\ retStats = Null
  /\ calls = <<>>

\* After a call has returned, the caller calls again with any arguments.
CallAgain ==
  /\ retStats # Null
  /\ Len(calls) < MaxCalls
  /\ argUser' \in CallProfiles
  /\ argLevel' \in DeficitLevel
  /\ retStats' = Null
  /\ UNCHANGED calls
  /\ UNCHANGED appVars

NextCalls ==
  \/ Calculate
  \/ CallAgain

SpecCalls == InitCalls /\ [][NextCalls]_vars

LeavesEdit == isEditing /\ step \in {4, 6} /\ (ClickNext \/ prevStep)

\* C15: the dashboard (step 8) is entered only through handleAuthComplete
\* after a successful sign-in or sign-up, or by leaving an edit started from
\* the dashboard; no interleaving of clicks with the completion of a
\* generation in flight brings step to 8 otherwise.
C15_DashboardOnlyAfterAuth ==
  [][(step' = 8 /\ step # 8)
       => (handleAuthLogin \/ handleAuthRegister \/ LeavesEdit)]_vars

(***************************************************************************)
(* A session on the dashboard: the regenerations (lines 1384-1435, started *)
(* from the list views, lines 125-137 and 226-245), the editors and        *)
(* "Refazer Teste".  It                                                    *)
(* starts in the state Spec reaches by onboarding, generating both plans   *)
(* and registering with every insert succeeding.                           *)
(*                                                                         *)
(* Objects.  A handler copies the array of a plan ([...plan]), not the     *)
(* days in it: an assignment INTO a day (a meal of a diet day, the         *)
(* duration of a workout day) is seen through every array that holds the   *)
(* day; an assignment of a new day to an index is seen only in the copy.   *)
(***************************************************************************)
\* The number of regeneration requests of a session.
MaxRegens == 2

DashUser == [initialUser EXCEPT !.name = "Ana"]

Registered ==
  /\ step = 8
  /\ user = DashUser
  /\ stats = calculateStats(StatsUserOfProfile(ProfileRow(DashUser)), "MODERATE")
  /\ dietPlan = GeneratedDietPlan
  /\ workoutPlan = GeneratedWorkoutPlan
  /\ deficitLevel = "MODERATE"
  /\ loading = FALSE
  /\ error = ""
  /\ showAnamnesis = FALSE
  /\ showProfileEdit = FALSE
  /\ isEditing = FALSE
  /\ authMode = "register"
  /\ formData = Null
  /\ pendingDiet = Null
  /\ pendingWorkout = Null
  /\ session = TRUE
  /\ dbAccount = TRUE
  /\ dbProfile = ProfileRow(DashUser)
  /\ dbDiet = GeneratedDietPlan
  /\ dbWorkout = GeneratedWorkoutPlan
  /\ calcArgs = [user |-> CalcInput(DashUser), level |-> "MODERATE"]

InitDash == Registered /\ regens = <<>> /\ AuthIdle /\ CalcIdle

\* The requests in flight.
Pending == {i \in DOMAIN regens : regens[i].status = "pending"}

\* A request as its handler holds it: the step and the dietPlan and
\* workoutPlan arrays of the render the handler belongs to.  `overlap`
\* (history) names the requests in flight when this one started.
NewRegen(kind, slot, duration) ==
  [kind |-> kind, slot |-> slot, duration |-> duration, step |-> step,
   dietPlan |-> dietPlan, workoutPlan |-> workoutPlan, status |-> "pending",
   overlap |-> Pending]

\* The request i as it is kept once its handler has returned.
Settled(i, status) ==
  [regens[i] EXCEPT !.status = status, !.dietPlan = Null, !.workoutPlan = Null]

\* plan with the meal assigned into its day.
WithMeal(plan, mealIdx, meal) ==
  IF plan # Null THEN [plan EXCEPT !.meals[mealIdx] = meal] ELSE plan

\* What no regeneration handler touches.
RegenFrame ==
  UNCHANGED <<step, user, stats, deficitLevel, loading, error, showAnamnesis,
              showProfileEdit, isEditing, authMode, formData, pendingDiet,
              pendingWorkout, session, dbAccount, dbProfile, calcArgs>>

\* The refresh button of a meal (disabled while that meal is loading), on
\* the diet screen or the dashboard: handleRegenerateMeal up to its await.
handleRegenerateMeal(mealIdx) ==
  /\ step \in {4, 8}
  /\ NoModal
  /\ dietPlan # Null
  /\ stats # Null
  /\ ~\E i \in Pending : regens[i].kind = "meal" /\ regens[i].slot = mealIdx
  /\ Len(regens) < MaxRegens
  /\ regens' = Append(regens, NewRegen("meal", mealIdx, ""))
  /\ RegenFrame
  /\ UNCHANGED <<dietPlan, workoutPlan, dbDiet, dbWorkout>>
  /\ UNCHANGED <<calcVars, authVars>>

\* regenerateMeal resolves, lines 1390-1394: the new meal is assigned into
\* the day (shared by every array that holds it), a copy of the handler's
\* array is set, and on the dashboard the copy is saved with the workoutPlan
\* of the handler.
MealRegenerated(i) ==
  /\ i \in Pending
  /\ regens[i].kind = "meal"
  /\ dietPlan' = WithMeal(regens[i].dietPlan, regens[i].slot, i)
  /\ IF regens[i].step = 8
       THEN /\ dbDiet' = SavedDiet(dietPlan')
            /\ dbWorkout' = SavedWorkout(regens[i].workoutPlan)
       ELSE UNCHANGED <<dbDiet, dbWorkout>>
  /\ regens' =
       [j \in DOMAIN regens |->
          IF j = i
            THEN Settled(i, "done")
            ELSE [regens[j] EXCEPT
                    !.dietPlan = WithMeal(@, regens[i].slot, i)]]
  /\ RegenFrame
  /\ UNCHANGED workoutPlan
  /\ UNCHANGED <<calcVars, authVars>>

\* A regeneration rejects: the alert of the catch, nothing else.
RegenFailed(i) ==
  /\ i \in Pending
  /\ regens' = [regens EXCEPT ![i] = Settled(i, "failed")]
  /\ RegenFrame
  /\ UNCHANGED <<dietPlan, workoutPlan, dbDiet, dbWorkout>>
  /\ UNCHANGED <<calcVars, authVars>>

\* The refresh button of a workout day (never disabled), on the workout
\* screen or the dashboard: handleRegenerateWorkoutDay up to its await.
handleRegenerateWorkoutDay(dayIdx) ==
  /\ step \in {6, 8}
  /\ NoModal
  /\ workoutPlan # Null
  /\ Len(regens) < MaxRegens
  /\ regens' = Append(regens,
                      NewRegen("day", dayIdx,
                               workoutPlan.days[dayIdx].duration))
  /\ RegenFrame
  /\ UNCHANGED <<dietPlan, workoutPlan, dbDiet, dbWorkout>>
  /\ UNCHANGED <<calcVars, authVars>>

\* plan with the duration assigned into the day object `day` of index dayIdx.
WithDuration(plan, dayIdx, day, newDuration) ==
  IF plan # Null /\ plan.days[dayIdx].id = day.id
    THEN [plan EXCEPT !.days[dayIdx].duration = newDuration]
    ELSE plan

\* The duration select of a workout day (disabled while the day is loading):
\* handleDurationChange up to its await, lines 1416-1425.  The duration is
\* assigned into the day, which the arrays of the requests in flight share.
handleDurationChange(dayIdx, newDuration) ==
  /\ step \in {6, 8}
  /\ NoModal
  /\ workoutPlan # Null
  /\ newDuration # workoutPlan.days[dayIdx].duration
  /\ ~\E i \in Pending : regens[i].kind # "meal" /\ regens[i].slot = dayIdx
  /\ Len(regens) < MaxRegens
  /\ workoutPlan' =
       WithDuration(workoutPlan, dayIdx, workoutPlan.days[dayIdx], newDuration)
  /\ regens' =
       Append([i \in DOMAIN regens |->
                 [regens[i] EXCEPT !.workoutPlan =
                    WithDuration(@, dayIdx, workoutPlan.days[dayIdx],
                                 newDuration)]],
              [NewRegen("duration", dayIdx, newDuration)
                 EXCEPT !.workoutPlan = workoutPlan'])
  /\ RegenFrame
  /\ UNCHANGED <<dietPlan, dbDiet, dbWorkout>>
  /\ UNCHANGED <<calcVars, authVars>>

\* regenerateWorkoutDay resolves, lines 1406-1410 and 1427-1431: the new day
\* is assigned to its index in a copy of the handler's array, the copy is
\* set, and on the dashboard it is saved with the dietPlan of the handler.
WorkoutDayRegenerated(i) ==
  /\ i \in Pending
  /\ regens[i].kind # "meal"
  /\ LET newDay == [id |-> i, duration |-> regens[i].duration]
         newWorkoutPlan ==
           [regens[i].workoutPlan EXCEPT !.days[regens[i].slot] = newDay]
     IN  /\ workoutPlan' = newWorkoutPlan
         /\ IF regens[i].step = 8
              THEN /\ dbDiet' = SavedDiet(regens[i].dietPlan)
                   /\ dbWorkout' = SavedWorkout(newWorkoutPlan)
              ELSE UNCHANGED <<dbDiet, dbWorkout>>
  /\ regens' = [regens EXCEPT ![i] = Settled(i, "done")]
  /\ RegenFrame
  /\ UNCHANGED dietPlan
  /\ UNCHANGED <<calcVars, authVars>>

NextDash ==
  \/ \E mealIdx \in Meals : handleRegenerateMeal(mealIdx)
  \/ \E i \in DOMAIN regens : MealRegenerated(i)
  \/ \E i \in DOMAIN regens : RegenFailed(i)
  \/ \E dayIdx \in Days : handleRegenerateWorkoutDay(dayIdx)
  \/ \E dayIdx \in Days, newDuration \in Durations :
       handleDurationChange(dayIdx, newDuration)
  \/ \E i \in DOMAIN regens : WorkoutDayRegenerated(i)
  \/ \E target \in {4, 6} : onEditPlan(target)
  \/ ClickNext
  \/ prevStep
  \/ handleRestart

SpecDash == InitDash /\ [][NextDash]_vars

\* No request is in flight (a save is part of the step that starts it).
Quiescent == Pending = {}

\* C16: for a signed-in user whose diet and workout rows exist, whenever the
\* dashboard is shown and no regeneration or save is in flight, the plans
\* stored in the backend equal the dietPlan and workoutPlan of the
\* application state.
C16_PlansPersisted ==
  (step = 8 /\ session /\ dbDiet # Null /\ dbWorkout # Null /\ Quiescent)
    => (dbDiet = dietPlan /\ dbWorkout = workoutPlan)

\* The successful regenerations (or duration changes) of workout days.
DoneDays ==
  {i \in DOMAIN regens : regens[i].kind # "meal" /\ regens[i].status = "done"}

\* C17: when regenerations (or duration changes) of two different workout
\* days were in flight at the same time and both succeeded (and nothing else
\* regenerated those days), the workout plan afterwards holds both newly
\* generated days, whatever the order of completion.
C17_BothRegeneratedDaysKept ==
  \A i, j \in DoneDays :
    (/\ regens[i].slot # regens[j].slot
     /\ i \in regens[j].overlap
     /\ \A k \in DoneDays \ {i, j} :
          regens[k].slot \notin {regens[i].slot, regens[j].slot})
      => /\ workoutPlan.days[regens[i].slot].id = i
         /\ workoutPlan.days[regens[j].slot].id = j

C19_EditingOnlyInEditors ==
  isEditing => step \in {4, 6}

\* C20: step is always one of the values 0 to 8 documented for the wizard.
C20_StepInRange ==
  step \in 0 .. 8

(***************************************************************************)
(* Blank pages and failed generations, checked under Spec                  *)
(***************************************************************************)
\* C21: Back on the analysis screen returns to the onboarding form: the
\* application never rests at step 1, for which no screen is rendered, with
\* no modal open.
C21_NeverAtBlankStepOne ==
  step = 1 => ~NoModal

\* The generation fails: the service rejects, or the diet is asked for
\* without stats.
GenerationFails ==
  \/ DietFailed
  \/ WorkoutFailed
  \/ (handleGenerateDiet /\ stats = Null)

\* C22: a failed generation leaves step, dietPlan and workoutPlan as they
\* were, sets a non-empty error and ends with loading false; a successful
\* one has stored its plan when the step has moved (by one, or to the
\* dashboard from an editor).
C22_FailedGenerationKeepsState ==
  [][/\ GenerationFails =>
          /\ step' = step
          /\ dietPlan' = dietPlan
          /\ workoutPlan' = workoutPlan
          /\ error' # ""
          /\ loading' = FALSE
     /\ DietGenerated =>
          /\ dietPlan' = GeneratedDietPlan
          /\ workoutPlan' = workoutPlan
          /\ step' \in {step + 1, 8}
     /\ WorkoutGenerated =>
          /\ workoutPlan' = GeneratedWorkoutPlan
          /\ dietPlan' = dietPlan
          /\ step' \in {step + 1, 8}]_vars

\* A diet generation has failed on the food screen, after an earlier one
\* succeeded: the plan of the earlier one is still there.
C22_Witness ==
  /\ step = 3
  /\ error = "Falha ao gerar dieta. Tente novamente."
  /\ ~loading
  /\ pendingDiet = Null
  /\ dietPlan = GeneratedDietPlan

(***************************************************************************)
(* What a sign-in after a logout shows, checked under Spec                 *)
(***************************************************************************)
\* A sign-in that succeeds on a client without a session.  An account exists
\* only once a sign-up has opened a session, so this follows a logout.
SignInAfterLogout ==
  ~session /\ handleAuthLogin /\ session'

\* C23: when a user signs in after a logout or a restart and the backend
\* holds no diet (workout) plan for them, the dashboard shows no diet
\* (workout) plan, and the stats shown are computed from their profile.
C23_NothingLeftOfPreviousSession ==
  [][SignInAfterLogout =>
       /\ step' = 8
       /\ dbDiet = Null => dietPlan' = Null
       /\ dbWorkout = Null => workoutPlan' = Null
       /\ dbProfile # Null =>
            \E level \in DeficitLevel :
              stats' = calculateStats(UserOfProfile(dbProfile), level)]_vars

(***************************************************************************)
(* A session on the registration screen: AuthScreen.handleAuth in          *)
(* registration mode (lines 1000-1081), one backend call at a time.  It    *)
(* starts in the states Spec reaches by onboarding and generating both     *)
(* plans, with no account registered yet.  The button is disabled while    *)
(* the screen's loading is set, and in this mode the screen has no Back.   *)
(***************************************************************************)
\* The number of times the button is pressed in a session.
MaxAttempts == 2

\* The calls of the registration flow, in the order of the source.
RegistrationOrder ==
  <<"signUp", "insert profile", "insert diet", "insert workout", "onComplete">>

\* The presses of the button so far: each starts with a signUp.
Attempts ==
  Cardinality({i \in DOMAIN authLog : authLog[i].call = "signUp"})

AuthUsers == {[initialUser EXCEPT !.name = "Ana", !.weight = w] : w \in {-900, 900}}

InitAuth ==
  /\ step = 7
  /\ user \in AuthUsers
  /\ deficitLevel \in DeficitLevel
  /\ stats = calculateStats(user, deficitLevel)
  /\ calcArgs = [user |-> CalcInput(user), level |-> deficitLevel]
  /\ dietPlan = GeneratedDietPlan
  /\ workoutPlan = GeneratedWorkoutPlan
  /\ loading = FALSE
  /\ error = ""
  /\ showAnamnesis = FALSE
  /\ showProfileEdit = FALSE
  /\ isEditing = FALSE
  /\ authMode = "register"
  /\ formData = Null
  /\ pendingDiet = Null
  /\ pendingWorkout = Null
  /\ session = FALSE
  /\ dbAccount = FALSE
  /\ dbProfile = Null
  /\ dbDiet = Null
  /\ dbWorkout = Null
  /\ regens = <<>>
  /\ AuthIdle
  /\ CalcIdle

\* What handleAuth leaves alone until it calls onComplete.
AuthFrame ==
  /\ UNCHANGED <<deficitLevel, loading, error, showAnamnesis, showProfileEdit,
                 isEditing, authMode, formData, pendingDiet, pendingWorkout,
                 regens>>
  /\ UNCHANGED calcVars

Logged(call, ok) ==
  Append(authLog, [call |-> call, ok |-> ok, attempt |-> Attempts])

\* The throw of a failed call: catch (setError) and finally (setLoading).
AuthAbort ==
  /\ authError' = "Ocorreu um erro. Tente novamente."
  /\ authLoading' = FALSE
  /\ authPc' = "idle"

\* "Criar Conta e Salvar": handleAuth up to the await of signUp.
handleAuth ==
  /\ step = 7
  /\ authMode = "register"
  /\ ~authLoading
  /\ authPc = "idle"
  /\ Attempts < MaxAttempts
  /\ authLoading' = TRUE
  /\ authError' = ""
  /\ authPc' = "signUp"
  /\ UNCHANGED <<step, user, stats, dietPlan, workoutPlan, session, dbAccount,
                 dbProfile, dbDiet, dbWorkout, calcArgs, authLog>>
  /\ AuthFrame

\* signUp returns (lines 1019-1027): refused for an e-mail that is already
\* registered, or failing otherwise, or the account is created and signed in.
SignUpReturned ==
  /\ authPc = "signUp"
  /\ \E ok \in BOOLEAN :
       /\ ok => ~dbAccount
       /\ authLog' = Append(authLog, [call |-> "signUp", ok |-> ok,
                                      attempt |-> Attempts + 1])
       /\ IF ok
            THEN /\ dbAccount' = TRUE
                 /\ session' = TRUE
                 /\ authPc' = "insert profile"
                 /\ UNCHANGED <<authLoading, authError>>
            ELSE /\ AuthAbort
                 /\ UNCHANGED <<dbAccount, session>>
  /\ UNCHANGED <<step, user, stats, dietPlan, workoutPlan, dbProfile, dbDiet,
                 dbWorkout, calcArgs>>
  /\ AuthFrame

\* A plausible slip: the profileError is logged like the errors of the plans.
ProfileInserted_NoAbort ==
  /\ authPc = "insert profile"
  /\ \E ok \in BOOLEAN :
       /\ authLog' = Logged("insert profile", ok)
       /\ dbProfile' = IF ok THEN ProfileRow(user) ELSE dbProfile
       /\ authPc' = "insert diet"
       /\ UNCHANGED <<authLoading, authError>>
  /\ UNCHANGED <<step, user, stats, dietPlan, workoutPlan, session, dbAccount,
                 dbDiet, dbWorkout, calcArgs>>
  /\ AuthFrame

\* The insert into `profiles` returns (lines 1030-1048).
ProfileInserted ==
  /\ authPc = "insert profile"
  /\ \E ok \in BOOLEAN :
       /\ authLog' = Logged("insert profile", ok)
       /\ IF ok
            THEN /\ dbProfile' = ProfileRow(user)
                 /\ authPc' = "insert diet"
                 /\ UNCHANGED <<authLoading, authError>>
            ELSE /\ AuthAbort
                 /\ UNCHANGED dbProfile
  /\ UNCHANGED <<step, user, stats, dietPlan, workoutPlan, session, dbAccount,
                 dbDiet, dbWorkout, calcArgs>>
  /\ AuthFrame

\* The insert of the diet plan returns, or is skipped without a plan
\* (lines 1051-1060); its error is only logged to the console.
DietInserted ==
  /\ authPc = "insert diet"
  /\ IF dietPlan = Null
       THEN UNCHANGED <<authLog, dbDiet>>
       ELSE \E ok \in BOOLEAN :
              /\ authLog' = Logged("insert diet", ok)
              /\ dbDiet' = IF ok THEN dietPlan ELSE dbDiet
  /\ authPc' = "insert workout"
  /\ UNCHANGED <<step, user, stats, dietPlan, workoutPlan, session, dbAccount,
                 dbProfile, dbWorkout, calcArgs, authLoading, authError>>
  /\ AuthFrame

\* The insert of the workout plan returns, or is skipped (lines 1063-1072).
WorkoutInserted ==
  /\ authPc = "insert workout"
  /\ IF workoutPlan = Null
       THEN UNCHANGED <<authLog, dbWorkout>>
       ELSE \E ok \in BOOLEAN :
              /\ authLog' = Logged("insert workout", ok)
              /\ dbWorkout' = IF ok THEN workoutPlan ELSE dbWorkout
  /\ authPc' = "onComplete"
  /\ UNCHANGED <<step, user, stats, dietPlan, workoutPlan, session, dbAccount,
                 dbProfile, dbDiet, calcArgs, authLoading, authError>>
  /\ AuthFrame

\* onComplete() (line 1074) and the finally: handleAuthComplete reads the
\* rows back and shows the dashboard.
AuthCompleted ==
  /\ authPc = "onComplete"
  /\ authLog' = Logged("onComplete", TRUE)
  /\ handleAuthComplete(dbProfile, dbDiet, dbWorkout)
  /\ authLoading' = FALSE
  /\ authPc' = "done"
  /\ UNCHANGED <<session, dbAccount, dbProfile, dbDiet, dbWorkout, authError>>
  /\ AuthFrame

NextAuth ==
  \/ handleAuth
  \/ SignUpReturned
  \/ ProfileInserted
  \/ DietInserted
  \/ WorkoutInserted
  \/ AuthCompleted

SpecAuth == InitAuth /\ [][NextAuth]_vars

\* The calls of one press of the button, in order.
AttemptCalls(a) ==
  SelectSeq(authLog, LAMBDA e : e.attempt = a)

\* The press `a` of the button has run to its end.
AttemptOver(a) ==
  a < Attempts \/ authPc \in {"idle", "done"}

\* C24: each registration performs sign-up, profile insert, diet insert,
\* workout insert and onComplete in this order; a failed sign-up or profile
\* insert is the last call of its attempt and leaves an error message with
\* step still 7; a failed plan insert does not keep onComplete from being
\* called.
C24_RegistrationOrder ==
  /\ \A a \in 1 .. Attempts :
       LET cs == AttemptCalls(a)
       IN  /\ Len(cs) <= Len(RegistrationOrder)
           /\ \A k \in DOMAIN cs : cs[k].call = RegistrationOrder[k]
           /\ \A k \in DOMAIN cs : (k <= 2 /\ ~cs[k].ok) => Len(cs) = k
           /\ AttemptOver(a) =>
                (Len(cs) = 5 <=> (Len(cs) >= 2 /\ cs[1].ok /\ cs[2].ok))
  /\ (authPc = "idle" /\ Attempts > 0) => (authError # "" /\ ~authLoading)
  /\ step = IF authPc = "done" THEN 8 ELSE 7

\* C24 witness: a registration has completed with both plan inserts failed,
\* after an attempt that was aborted.
C24_Witness ==
  /\ authPc = "done"
  /\ step = 8
  /\ Attempts = 2
  /\ \E i, j \in DOMAIN authLog :
       /\ authLog[i].call = "insert diet" /\ ~authLog[i].ok
       /\ authLog[j].call = "insert workout" /\ ~authLog[j].ok

\* C25: registration is all-or-nothing: when an attempt has ended with an
\* error message no account exists in the backend (a retry with the same
\* e-mail can succeed), and when registration has completed the account has
\* its profile row.
C25_AllOrNothing ==
  /\ (authPc = "idle" /\ authError # "") => ~dbAccount
  /\ authPc = "done" => (dbAccount /\ dbProfile # Null)

(***************************************************************************)
(* The frame of a meal regeneration, checked under SpecDash                *)
(***************************************************************************)
\* C26: a successful meal regeneration replaces exactly the meal of its slot
\* by the returned meal and leaves every other meal, the number of days and
\* of meals, and the workout plan unchanged; a failed one leaves the whole
\* diet plan unchanged.
C26_MealRegenerationFrame ==
  [][\A i \in DOMAIN regens :
       /\ MealRegenerated(i) =>
            /\ dietPlan # Null
            /\ dietPlan' = [dietPlan EXCEPT !.meals[regens[i].slot] = i]
            /\ workoutPlan' = workoutPlan
       /\ (RegenFailed(i) /\ regens[i].kind = "meal") =>
            dietPlan' = dietPlan]_vars

====
